---------------------------- MODULE Spec2Model ----------------------------
(* A model of fiscalyear.py: the module globals START_MONTH / START_DAY,  *)
(* the validators _check_int / _check_year / _check_quarter, and the      *)
(* classes FiscalYear, FiscalQuarter and FiscalDate. Every method is a    *)
(* pure function of the receiver and of the two globals; the state holds  *)
(* the globals, the object under observation (self) and the outcome of    *)
(* the last call made (ret).                                              *)
EXTENDS Integers, Sequences, FiniteSets, TLC

VARIABLES START_MONTH, START_DAY, self, ret

vars == <<START_MONTH, START_DAY, self, ret>>

(* ------------------------------------------------------------------ *)
(* Program constants                                                    *)
(* ------------------------------------------------------------------ *)

DEFAULT_START_DAY == 1
DEFAULT_START_MONTH == 10
MONTHS_PER_QUARTER == 12 \div 4
MIN_QUARTER == 1
MAX_QUARTER == 4
\* datetime.MINYEAR and datetime.MAXYEAR of the standard library
MINYEAR == 1
MAXYEAR == 9999

(* ------------------------------------------------------------------ *)
(* Bounds of the model                                                  *)
(* ------------------------------------------------------------------ *)

\* START_DAY is drawn from 1..MaxStartDay
MaxStartDay == 2
\* years of FiscalYear / FiscalQuarter arguments: within YearSpan of an anchor
YearSpan == 1
\* calendar years of FiscalDate objects: DateSpan+1 years ending at 2017,
\* besides MINYEAR and MAXYEAR
DateSpan == 1

AnchorYears == {MINYEAR, 1900, 2000, 2017, MAXYEAR}
ArgYears == UNION {(a - YearSpan)..(a + YearSpan) : a \in AnchorYears}
DateYears == {MINYEAR, MAXYEAR} \cup ((2017 - DateSpan)..2017)
ArgQuarters == (MIN_QUARTER - 1)..(MAX_QUARTER + 1)

(* ------------------------------------------------------------------ *)
(* Python values and call outcomes                                      *)
(* ------------------------------------------------------------------ *)

\* every value carries its class; isinstance(o, C) is o.cls = C
IntV(n) == [cls |-> "int", int |-> n, str |-> <<>>]
BoolV(b) == [cls |-> "bool", int |-> IF b THEN 1 ELSE 0, str |-> <<>>]
StrV(s) == [cls |-> "str", int |-> 0, str |-> s]
FloatV == [cls |-> "float", int |-> 0, str |-> <<>>]
NoneV == [cls |-> "NoneType", int |-> 0, str |-> <<>>]

\* isinstance(value, int): bool is a subclass of int
IsInt(v) == v.cls \in {"int", "bool"}

NoVal == "-"
Ok(v) == [exc |-> "", val |-> v]
Raise(e) == [exc |-> e, val |-> NoVal]
IsOk(r) == r.exc = ""

NotImplemented == "NotImplemented"

(* ------------------------------------------------------------------ *)
(* Calendar primitives of the standard library                          *)
(* ------------------------------------------------------------------ *)

\* calendar.isleap
isleap(year) == year % 4 = 0 /\ (year % 100 # 0 \/ year % 400 = 0)

\* calendar.monthrange(year, month)[1]
monthrange(year, month) ==
    IF month = 2 THEN (IF isleap(year) THEN 29 ELSE 28)
    ELSE IF month \in {4, 6, 9, 11} THEN 30 ELSE 31

\* datetime.date(year, month, day): ValueError outside the calendar
date(year, month, day) ==
    IF /\ MINYEAR <= year /\ year <= MAXYEAR
       /\ 1 <= month /\ month <= 12
       /\ 1 <= day /\ day <= monthrange(year, month)
    THEN Ok([year |-> year, month |-> month, day |-> day])
    ELSE Raise("ValueError")

\* datetime.datetime(year, month, day, hour, minute, second)
datetime(year, month, day, hour, minute, second) ==
    IF /\ IsOk(date(year, month, day))
       /\ hour \in 0..23 /\ minute \in 0..59 /\ second \in 0..59
    THEN Ok([year |-> year, month |-> month, day |-> day,
             hour |-> hour, minute |-> minute, second |-> second])
    ELSE Raise("ValueError")

\* datetime.datetime.date()
DateOf(dt) == [year |-> dt.year, month |-> dt.month, day |-> dt.day]

(* ------------------------------------------------------------------ *)
(* Input validation                                                     *)
(* ------------------------------------------------------------------ *)

\* str has no method is_digit: the attribute lookup raises AttributeError
\* for every string, before int(value) is reached
_check_int(value) ==
    IF IsInt(value) THEN Ok(value.int)
    ELSE IF value.cls = "str" THEN Raise("AttributeError")
    ELSE Raise("TypeError")

_check_year(year) ==
    LET r == _check_int(year) IN
    IF ~IsOk(r) THEN r
    ELSE IF MINYEAR <= r.val /\ r.val <= MAXYEAR THEN r
    ELSE Raise("ValueError")

_check_quarter(quarter) ==
    LET r == _check_int(quarter) IN
    IF ~IsOk(r) THEN r
    ELSE IF MIN_QUARTER <= r.val /\ r.val <= MAX_QUARTER THEN r
    ELSE Raise("ValueError")



(* ------------------------------------------------------------------ *)
(* class FiscalQuarter                                                  *)
(* ------------------------------------------------------------------ *)

FiscalQuarterObj(fiscal_year, quarter) ==
    [cls |-> "FiscalQuarter", fiscal_year |-> fiscal_year, quarter |-> quarter]

\* FiscalQuarter.__init__ validates with assert statements only. A failing
\* assert raises AssertionError, and is not executed at all when the
\* interpreter runs with -O: the set holds every outcome of the call.
FiscalQuarter(fiscal_year, quarter) ==
    IF /\ IsInt(fiscal_year)
       /\ IsInt(quarter)
       /\ MINYEAR <= fiscal_year.int /\ fiscal_year.int <= MAXYEAR
       /\ 1 <= quarter.int /\ quarter.int <= 4
    THEN {Ok(FiscalQuarterObj(fiscal_year, quarter))}
    ELSE {Raise("AssertionError"), Ok(FiscalQuarterObj(fiscal_year, quarter))}

\* first month of the fiscal quarter
StartMonthOf(quarter) ==
    LET month == (START_MONTH + (quarter - 1) * MONTHS_PER_QUARTER) % 12
    IN  IF month = 0 THEN 12 ELSE month

\* last month of the fiscal quarter
EndMonthOf(quarter) ==
    LET month == (START_MONTH + quarter * MONTHS_PER_QUARTER - 1) % 12
    IN  IF month = 0 THEN 12 ELSE month

\* calendar year of a month of the fiscal year
CalendarYearOf(fiscal_year, month) ==
    IF month >= START_MONTH THEN fiscal_year - 1 ELSE fiscal_year

\* FiscalQuarter.start; fields that are no integers (an object built with the
\* asserts off) end in TypeError, in the arithmetic or in datetime()
FiscalQuarter_start(fq) ==
    IF ~IsInt(fq.quarter) \/ ~IsInt(fq.fiscal_year) THEN Raise("TypeError")
    ELSE LET month == StartMonthOf(fq.quarter.int)
             year == CalendarYearOf(fq.fiscal_year.int, month)
         IN  datetime(year, month, START_DAY, 0, 0, 0)

\* FiscalQuarter.end
FiscalQuarter_end(fq) ==
    IF ~IsInt(fq.quarter) \/ ~IsInt(fq.fiscal_year) THEN Raise("TypeError")
    ELSE LET month == EndMonthOf(fq.quarter.int)
             year == CalendarYearOf(fq.fiscal_year.int, month)
             day == monthrange(year, month)
         IN  datetime(year, month, day, 23, 59, 59)

FiscalQuarter_fiscal_year(fq) == Ok(fq.fiscal_year)

FiscalQuarter_quarter(fq) == Ok(fq.quarter)

(* ------------------------------------------------------------------ *)
(* class FiscalYear                                                     *)
(* ------------------------------------------------------------------ *)

FiscalYearObj(fiscal_year) == [cls |-> "FiscalYear", _fiscal_year |-> fiscal_year]

\* FiscalYear.__new__
FiscalYear(fiscal_year) ==
    LET r == _check_year(fiscal_year) IN
    IF IsOk(r) THEN Ok(FiscalYearObj(r.val)) ELSE r

FiscalYear_fiscal_year(fy) == Ok(fy._fiscal_year)

\* FiscalYear.q1 .. FiscalYear.q4
q1(fy) == FiscalQuarter(IntV(fy._fiscal_year), IntV(1))

q2(fy) == FiscalQuarter(IntV(fy._fiscal_year), IntV(2))

q3(fy) == FiscalQuarter(IntV(fy._fiscal_year), IntV(3))

q4(fy) == FiscalQuarter(IntV(fy._fiscal_year), IntV(4))

qK(fy, K) == CASE K = 1 -> q1(fy) [] K = 2 -> q2(fy) [] K = 3 -> q3(fy) [] OTHER -> q4(fy)

\* FiscalYear.start: self.q1.start
FiscalYear_start(fy) ==
    {IF IsOk(q) THEN FiscalQuarter_start(q.val) ELSE q : q \in q1(fy)}

\* FiscalYear.end: self.q4.end
FiscalYear_end(fy) ==
    {IF IsOk(q) THEN FiscalQuarter_end(q.val) ELSE q : q \in q4(fy)}

\* the six rich comparisons
__lt__(fy, other) ==
    IF other.cls = "FiscalYear" THEN fy._fiscal_year < other._fiscal_year
    ELSE NotImplemented

\* (mutant) <= written as <
__le__strict(fy, other) ==
    IF other.cls = "FiscalYear" THEN fy._fiscal_year < other._fiscal_year
    ELSE NotImplemented

__le__(fy, other) ==
    IF other.cls = "FiscalYear" THEN fy._fiscal_year <= other._fiscal_year
    ELSE NotImplemented

__eq__(fy, other) ==
    IF other.cls = "FiscalYear" THEN fy._fiscal_year = other._fiscal_year
    ELSE NotImplemented

__ne__(fy, other) ==
    IF other.cls = "FiscalYear" THEN fy._fiscal_year # other._fiscal_year
    ELSE NotImplemented

__gt__(fy, other) ==
    IF other.cls = "FiscalYear" THEN fy._fiscal_year > other._fiscal_year
    ELSE NotImplemented

__ge__(fy, other) ==
    IF other.cls = "FiscalYear" THEN fy._fiscal_year >= other._fiscal_year
    ELSE NotImplemented

CompareOps == {"__lt__", "__le__", "__eq__", "__ne__", "__gt__", "__ge__"}

Compare(op, fy, other) ==
    CASE op = "__lt__" -> __lt__(fy, other)
      [] op = "__le__" -> __le__(fy, other)
      [] op = "__eq__" -> __eq__(fy, other)
      [] op = "__ne__" -> __ne__(fy, other)
      [] op = "__gt__" -> __gt__(fy, other)
      [] OTHER -> __ge__(fy, other)

(* ------------------------------------------------------------------ *)
(* class FiscalDate(datetime.date)                                      *)
(* ------------------------------------------------------------------ *)

FiscalDateObj(year, month, day) ==
    [cls |-> "FiscalDate", year |-> year, month |-> month, day |-> day]

\* the constructor inherited from datetime.date
FiscalDate(year, month, day) ==
    IF IsOk(date(year, month, day)) THEN Ok(FiscalDateObj(year, month, day))
    ELSE date(year, month, day)

\* datetime.date.__eq__
DateEq(a, b) == a.year = b.year /\ a.month = b.month /\ a.day = b.day

FiscalDate_fiscal_year(d) ==
    IF d.month >= START_MONTH THEN d.year + 1 ELSE d.year

\* (mutant) the month before START_MONTH is not wrapped into the year
FiscalDate_quarter_nowrap(d) ==
    (d.month - START_MONTH) \div MONTHS_PER_QUARTER + 1

FiscalDate_quarter(d) ==
    LET month == d.month - START_MONTH
        wrapped == IF month < 0 THEN month + 12 ELSE month
    IN  wrapped \div MONTHS_PER_QUARTER + 1

prev_quarter_fiscal_year(d) ==
    IF FiscalDate_quarter(d) = 1 THEN FiscalDate_fiscal_year(d) - 1
    ELSE FiscalDate_fiscal_year(d)

next_quarter_fiscal_year(d) ==
    IF FiscalDate_quarter(d) = 4 THEN FiscalDate_fiscal_year(d) + 1
    ELSE FiscalDate_fiscal_year(d)

prev_quarter(d) ==
    LET quarter == FiscalDate_quarter(d) - 1
    IN  IF quarter = 0 THEN 4 ELSE quarter

next_quarter(d) ==
    LET quarter == FiscalDate_quarter(d) + 1
    IN  IF quarter = 5 THEN 1 ELSE quarter

\* every outcome of is_quarter_start: the FiscalQuarter constructor or its
\* start may raise, and the exception propagates
is_quarter_start(d, quarter) ==
    {IF ~IsOk(q) THEN q
     ELSE LET start == FiscalQuarter_start(q.val)
          IN  IF ~IsOk(start) THEN start ELSE Ok(DateEq(d, DateOf(start.val)))
     : q \in FiscalQuarter(IntV(FiscalDate_fiscal_year(d)), IntV(quarter))}

is_quarter_end(d, quarter) ==
    {IF ~IsOk(q) THEN q
     ELSE LET end == FiscalQuarter_end(q.val)
          IN  IF ~IsOk(end) THEN end ELSE Ok(DateEq(d, DateOf(end.val)))
     : q \in FiscalQuarter(IntV(FiscalDate_fiscal_year(d)), IntV(quarter))}

is_q1_start(d) == is_quarter_start(d, 1)

is_q2_start(d) == is_quarter_start(d, 2)

is_q3_start(d) == is_quarter_start(d, 3)

is_q4_start(d) == is_quarter_start(d, 4)

is_q1_end(d) == is_quarter_end(d, 1)

is_q2_end(d) == is_quarter_end(d, 2)

is_q3_end(d) == is_quarter_end(d, 3)

is_q4_end(d) == is_quarter_end(d, 4)

is_qK_start(d, K) ==
    CASE K = 1 -> is_q1_start(d) [] K = 2 -> is_q2_start(d)
      [] K = 3 -> is_q3_start(d) [] OTHER -> is_q4_start(d)

is_qK_end(d, K) ==
    CASE K = 1 -> is_q1_end(d) [] K = 2 -> is_q2_end(d)
      [] K = 3 -> is_q3_end(d) [] OTHER -> is_q4_end(d)

(* ------------------------------------------------------------------ *)
(* Inputs                                                               *)
(* ------------------------------------------------------------------ *)

\* strings as sequences of characters
Strings == {<<"2", "0", "1", "7">>, <<"2", "0", "a", "7">>, <<"0">>, <<>>}

YearInputs ==
    {IntV(y) : y \in ArgYears} \cup {StrV(s) : s \in Strings}
        \cup {FloatV, NoneV, BoolV(TRUE), BoolV(FALSE)}

QuarterInputs ==
    {IntV(q) : q \in ArgQuarters} \cup {StrV(<<"1">>), NoneV}

\* the right operand of a comparison: a FiscalYear, or a value of another type
Others ==
    {FiscalYearObj(y) : y \in {MINYEAR, MAXYEAR} \cup ((2017 - YearSpan)..(2017 + YearSpan))}
        \cup {IntV(2017), StrV(<<"2", "0", "1", "7">>), NoneV,
              FiscalQuarterObj(IntV(2017), IntV(1))}

(* ------------------------------------------------------------------ *)
(* The state machine                                                    *)
(* ------------------------------------------------------------------ *)

NoRet == [op |-> "", arg |-> NoVal, exc |-> "", val |-> NoVal]

\* the call op(arg) returns or raises one of the outcomes
Returns(op, arg, outcomes) ==
    \E r \in outcomes : ret' = [op |-> op, arg |-> arg, exc |-> r.exc, val |-> r.val]

\* a constructor call: the object exists only if the call returns
Constructs(op, arg, outcomes) ==
    \E r \in outcomes :
        /\ ret' = [op |-> op, arg |-> arg, exc |-> r.exc, val |-> r.val]
        /\ self' = IF IsOk(r) THEN r.val ELSE self

\* no caller catches: an exception that a call raises ends the program
Running == ret.exc = ""

Init ==
    /\ START_MONTH = DEFAULT_START_MONTH
    /\ START_DAY = DEFAULT_START_DAY
    /\ self = NoneV
    /\ ret = NoRet

\* the application configures the fiscal calendar (fiscalyear.START_MONTH = m,
\* fiscalyear.START_DAY = d) before it uses the library
SetStart ==
    /\ Running
    /\ self.cls = "NoneType"
    /\ \E m \in 1..12, d \in 1..MaxStartDay :
        /\ START_MONTH' = m
        /\ START_DAY' = d
    /\ ret' = NoRet
    /\ UNCHANGED self

NewFiscalYear ==
    /\ Running
    /\ self.cls = "NoneType"
    /\ \E v \in YearInputs : Constructs("FiscalYear", v, {FiscalYear(v)})
    /\ UNCHANGED <<START_MONTH, START_DAY>>

NewFiscalQuarter ==
    /\ Running
    /\ self.cls = "NoneType"
    /\ \E y \in YearInputs, q \in QuarterInputs :
        Constructs("FiscalQuarter", <<y, q>>, FiscalQuarter(y, q))
    /\ UNCHANGED <<START_MONTH, START_DAY>>

NewFiscalDate ==
    /\ Running
    /\ self.cls = "NoneType"
    /\ \E y \in DateYears, m \in 1..12, d \in 1..31 :
        Constructs("FiscalDate", <<y, m, d>>, {FiscalDate(y, m, d)})
    /\ UNCHANGED <<START_MONTH, START_DAY>>

GetFiscalYear ==
    /\ Running
    /\ self.cls = "FiscalYear"
    /\ Returns("FiscalYear.fiscal_year", NoVal, {FiscalYear_fiscal_year(self)})
    /\ UNCHANGED <<START_MONTH, START_DAY, self>>

GetYearStart ==
    /\ Running
    /\ self.cls = "FiscalYear"
    /\ Returns("FiscalYear.start", NoVal, FiscalYear_start(self))
    /\ UNCHANGED <<START_MONTH, START_DAY, self>>

GetYearEnd ==
    /\ Running
    /\ self.cls = "FiscalYear"
    /\ Returns("FiscalYear.end", NoVal, FiscalYear_end(self))
    /\ UNCHANGED <<START_MONTH, START_DAY, self>>

GetYearQuarter ==
    /\ Running
    /\ self.cls = "FiscalYear"
    /\ \E K \in 1..4 : Returns("FiscalYear.qK", K, qK(self, K))
    /\ UNCHANGED <<START_MONTH, START_DAY, self>>

CompareYear ==
    /\ Running
    /\ self.cls = "FiscalYear"
    /\ \E op \in CompareOps, other \in Others :
        Returns(op, other, {Ok(Compare(op, self, other))})
    /\ UNCHANGED <<START_MONTH, START_DAY, self>>

GetQuarterFields ==
    /\ Running
    /\ self.cls = "FiscalQuarter"
    /\ \/ Returns("FiscalQuarter.fiscal_year", NoVal, {FiscalQuarter_fiscal_year(self)})
       \/ Returns("FiscalQuarter.quarter", NoVal, {FiscalQuarter_quarter(self)})
    /\ UNCHANGED <<START_MONTH, START_DAY, self>>

GetQuarterStart ==
    /\ Running
    /\ self.cls = "FiscalQuarter"
    /\ Returns("FiscalQuarter.start", NoVal, {FiscalQuarter_start(self)})
    /\ UNCHANGED <<START_MONTH, START_DAY, self>>

GetQuarterEnd ==
    /\ Running
    /\ self.cls = "FiscalQuarter"
    /\ Returns("FiscalQuarter.end", NoVal, {FiscalQuarter_end(self)})
    /\ UNCHANGED <<START_MONTH, START_DAY, self>>

GetDateFiscalYear ==
    /\ Running
    /\ self.cls = "FiscalDate"
    /\ Returns("FiscalDate.fiscal_year", NoVal, {Ok(FiscalDate_fiscal_year(self))})
    /\ UNCHANGED <<START_MONTH, START_DAY, self>>

GetDateQuarter ==
    /\ Running
    /\ self.cls = "FiscalDate"
    /\ Returns("FiscalDate.quarter", NoVal, {Ok(FiscalDate_quarter(self))})
    /\ UNCHANGED <<START_MONTH, START_DAY, self>>

GetAdjacentQuarter ==
    /\ Running
    /\ self.cls = "FiscalDate"
    /\ \/ Returns("FiscalDate.prev_quarter", NoVal, {Ok(prev_quarter(self))})
       \/ Returns("FiscalDate.next_quarter", NoVal, {Ok(next_quarter(self))})
       \/ Returns("FiscalDate.prev_quarter_fiscal_year", NoVal,
                  {Ok(prev_quarter_fiscal_year(self))})
       \/ Returns("FiscalDate.next_quarter_fiscal_year", NoVal,
                  {Ok(next_quarter_fiscal_year(self))})
    /\ UNCHANGED <<START_MONTH, START_DAY, self>>

IsQuarterStart ==
    /\ Running
    /\ self.cls = "FiscalDate"
    /\ \E K \in 1..4 : Returns("FiscalDate.is_qK_start", K, is_qK_start(self, K))
    /\ UNCHANGED <<START_MONTH, START_DAY, self>>

IsQuarterEnd ==
    /\ Running
    /\ self.cls = "FiscalDate"
    /\ \E K \in 1..4 : Returns("FiscalDate.is_qK_end", K, is_qK_end(self, K))
    /\ UNCHANGED <<START_MONTH, START_DAY, self>>

Next ==
    \/ SetStart
    \/ NewFiscalYear
    \/ NewFiscalQuarter
    \/ NewFiscalDate
    \/ GetFiscalYear
    \/ GetYearStart
    \/ GetYearEnd
    \/ GetYearQuarter
    \/ CompareYear
    \/ GetQuarterFields
    \/ GetQuarterStart
    \/ GetQuarterEnd
    \/ GetDateFiscalYear
    \/ GetDateQuarter
    \/ GetAdjacentQuarter
    \/ IsQuarterStart
    \/ IsQuarterEnd

Spec == Init /\ [][Next]_vars

(* ------------------------------------------------------------------ *)
(* Vocabulary of the properties                                         *)
(* ------------------------------------------------------------------ *)

DefaultConfig == START_MONTH = DEFAULT_START_MONTH /\ START_DAY = DEFAULT_START_DAY

ValidYear(y) == MINYEAR <= y /\ y <= MAXYEAR

\* the comparison of two integers that a comparison method is named after
IntCompare(op, a, b) ==
    CASE op = "__lt__" -> a < b
      [] op = "__le__" -> a <= b
      [] op = "__eq__" -> a = b
      [] op = "__ne__" -> a # b
      [] op = "__gt__" -> a > b
      [] OTHER -> a >= b

\* some outcome of the call is the value TRUE
MayBeTrue(outcomes) == \E r \in outcomes : IsOk(r) /\ r.val = TRUE

\* d is the date of a start (end) instant that the call can return
IsStartDate(d, fy, K) ==
    \E q \in FiscalQuarter(IntV(fy), IntV(K)) :
        /\ IsOk(q)
        /\ IsOk(FiscalQuarter_start(q.val))
        /\ DateEq(d, DateOf(FiscalQuarter_start(q.val).val))

IsEndDate(d, fy, K) ==
    \E q \in FiscalQuarter(IntV(fy), IntV(K)) :
        /\ IsOk(q)
        /\ IsOk(FiscalQuarter_end(q.val))
        /\ DateEq(d, DateOf(FiscalQuarter_end(q.val).val))

(* ------------------------------------------------------------------ *)
(* C6                                                                   *)
(* ------------------------------------------------------------------ *)

\* C6: each of the six comparisons of a FiscalYear with a FiscalYear returns
\* the result of the same comparison of the two integers fiscal_year; with an
\* operand of any other type each returns NotImplemented; none raises.
C6_ComparisonsDelegate ==
    (self.cls = "FiscalYear" /\ ret.op \in CompareOps) =>
        /\ ret.exc = ""
        /\ IF ret.arg.cls = "FiscalYear"
           THEN ret.val = IntCompare(ret.op, self._fiscal_year, ret.arg._fiscal_year)
           ELSE ret.val = NotImplemented

\* FiscalYear(2017) <= FiscalYear(2017) has been evaluated and is true
C6_Witness ==
    /\ self.cls = "FiscalYear"
    /\ self._fiscal_year = 2017
    /\ ret.op = "__le__"
    /\ ret.arg.cls = "FiscalYear"
    /\ ret.arg._fiscal_year = 2017
    /\ ret.val = TRUE

(* ------------------------------------------------------------------ *)
(* C8                                                                   *)
(* ------------------------------------------------------------------ *)

\* the seven other boundary predicates of d are not true
OthersNotTrue(d, kind, K) ==
    \A J \in 1..4 :
        /\ (kind # "start" \/ J # K) => ~MayBeTrue(is_qK_start(d, J))
        /\ (kind # "end" \/ J # K) => ~MayBeTrue(is_qK_end(d, J))

GregorianDays(year, month) ==
    CASE month \in {1, 3, 5, 7, 8, 10, 12} -> 31
      [] month \in {4, 6, 9, 11} -> 30
      [] OTHER -> IF year % 400 = 0 THEN 29
                  ELSE IF year % 100 = 0 THEN 28
                  ELSE IF year % 4 = 0 THEN 29 ELSE 28

\* the calendar day after d
NextDay(d) ==
    IF d.day < GregorianDays(d.year, d.month)
    THEN [year |-> d.year, month |-> d.month, day |-> d.day + 1]
    ELSE IF d.month < 12 THEN [year |-> d.year, month |-> d.month + 1, day |-> 1]
    ELSE [year |-> d.year + 1, month |-> 1, day |-> 1]

\* the calendar day before d
PrevDay(d) ==
    IF d.day > 1 THEN [year |-> d.year, month |-> d.month, day |-> d.day - 1]
    ELSE IF d.month > 1
    THEN [year |-> d.year, month |-> d.month - 1,
          day |-> GregorianDays(d.year, d.month - 1)]
    ELSE [year |-> d.year - 1, month |-> 12, day |-> 31]

\* the instant one second after t
NextSecond(t) ==
    IF t.second < 59 THEN [t EXCEPT !.second = t.second + 1]
    ELSE IF t.minute < 59 THEN [t EXCEPT !.second = 0, !.minute = t.minute + 1]
    ELSE IF t.hour < 23 THEN [t EXCEPT !.second = 0, !.minute = 0, !.hour = t.hour + 1]
    ELSE LET n == NextDay(DateOf(t))
         IN  [year |-> n.year, month |-> n.month, day |-> n.day,
              hour |-> 0, minute |-> 0, second |-> 0]

DateLE(a, b) ==
    \/ a.year < b.year
    \/ a.year = b.year /\ a.month < b.month
    \/ a.year = b.year /\ a.month = b.month /\ a.day <= b.day

\* the call has exactly one outcome, a value
Returned(outcomes) == Cardinality(outcomes) = 1 /\ \A r \in outcomes : IsOk(r)

ValueOf(outcomes) == (CHOOSE r \in outcomes : TRUE).val

\* start and end of quarter K of fiscal year fy, through the constructor
QStart(fy, K) ==
    {IF IsOk(q) THEN FiscalQuarter_start(q.val) ELSE q
        : q \in FiscalQuarter(IntV(fy), IntV(K))}

QEnd(fy, K) ==
    {IF IsOk(q) THEN FiscalQuarter_end(q.val) ELSE q
        : q \in FiscalQuarter(IntV(fy), IntV(K))}

\* the receiver is a FiscalQuarter that passes the documented validation
ValidQuarterObj(fq) ==
    /\ fq.cls = "FiscalQuarter"
    /\ IsInt(fq.fiscal_year) /\ ValidYear(fq.fiscal_year.int)
    /\ IsInt(fq.quarter) /\ fq.quarter.int \in MIN_QUARTER..MAX_QUARTER

(* ------------------------------------------------------------------ *)
(* C1                                                                   *)
(* ------------------------------------------------------------------ *)

\* the four quarters of fiscal year fy tile one year without gap or overlap
QuartersPartition(fy) ==
    /\ \A K \in 1..4 : Returned(QStart(fy, K)) /\ Returned(QEnd(fy, K))
    /\ \A K \in 1..3 :
        /\ NextDay(DateOf(ValueOf(QEnd(fy, K)))) = DateOf(ValueOf(QStart(fy, K + 1)))
        /\ NextSecond(ValueOf(QEnd(fy, K))) = ValueOf(QStart(fy, K + 1))
    /\ LET first == DateOf(ValueOf(QStart(fy, 1)))
       IN  NextDay(DateOf(ValueOf(QEnd(fy, 4))))
               = [year |-> first.year + 1, month |-> first.month, day |-> first.day]

\* C1: with START_DAY = 1 and any START_MONTH, for every valid fiscal year the
\* day after qk.end is q(k+1).start (one second apart) for k in 1..3, and the
\* day after q4.end is q1.start one calendar year later.
C1_QuartersPartition ==
    (self.cls = "FiscalYear" /\ START_DAY = 1 /\ ret.op = "FiscalYear.start")
        => QuartersPartition(self._fiscal_year)

\* the partition holds for every fiscal year above MINYEAR
C1_AboveMinYear ==
    (self.cls = "FiscalYear" /\ START_DAY = 1 /\ ret.op = "FiscalYear.start"
        /\ self._fiscal_year > MINYEAR)
        => QuartersPartition(self._fiscal_year)

(* ------------------------------------------------------------------ *)
(* C2                                                                   *)
(* ------------------------------------------------------------------ *)

\* the day before the start of quarter Q of fiscal year fy belongs to the
\* quarter before it
DayBeforeStart(fy, Q) ==
    /\ IsOk(FiscalQuarter_start(FiscalQuarterObj(IntV(fy), IntV(Q))))
    /\ LET start == DateOf(FiscalQuarter_start(FiscalQuarterObj(IntV(fy), IntV(Q))).val)
           before == PrevDay(start)
       IN  /\ IsOk(date(before.year, before.month, before.day))
           /\ FiscalDate_quarter(before) = (IF Q = 1 THEN 4 ELSE Q - 1)
           /\ FiscalDate_fiscal_year(before) = (IF Q = 1 THEN fy - 1 ELSE fy)

\* C2: for every valid fiscal year Y and quarter Q, the day before the date of
\* FiscalQuarter(Y, Q).start has quarter Q-1 (4 when Q = 1) and fiscal year Y
\* (Y-1 when Q = 1); stated for the shipped configuration.
C2_RoundTrip ==
    (ValidQuarterObj(self) /\ DefaultConfig /\ ret.op = "FiscalQuarter.start")
        => DayBeforeStart(self.fiscal_year.int, self.quarter.int)

\* the round trip holds for every fiscal year above MINYEAR
C2_AboveMinYear ==
    (ValidQuarterObj(self) /\ DefaultConfig /\ ret.op = "FiscalQuarter.start"
        /\ self.fiscal_year.int > MINYEAR)
        => DayBeforeStart(self.fiscal_year.int, self.quarter.int)

(* ------------------------------------------------------------------ *)
(* C3                                                                   *)
(* ------------------------------------------------------------------ *)

Instant(y, m, d, H, M, S) ==
    [year |-> y, month |-> m, day |-> d, hour |-> H, minute |-> M, second |-> S]

\* the spans of the U.S. federal fiscal year Y
FederalYear(Y) ==
    /\ FiscalYear_start(FiscalYearObj(Y)) = {Ok(Instant(Y - 1, 10, 1, 0, 0, 0))}
    /\ FiscalYear_end(FiscalYearObj(Y)) = {Ok(Instant(Y, 9, 30, 23, 59, 59))}
    /\ QStart(Y, 1) = {Ok(Instant(Y - 1, 10, 1, 0, 0, 0))}
    /\ QEnd(Y, 1) = {Ok(Instant(Y - 1, 12, 31, 23, 59, 59))}
    /\ QStart(Y, 2) = {Ok(Instant(Y, 1, 1, 0, 0, 0))}
    /\ QEnd(Y, 2) = {Ok(Instant(Y, 3, 31, 23, 59, 59))}
    /\ QStart(Y, 3) = {Ok(Instant(Y, 4, 1, 0, 0, 0))}
    /\ QEnd(Y, 3) = {Ok(Instant(Y, 6, 30, 23, 59, 59))}
    /\ QStart(Y, 4) = {Ok(Instant(Y, 7, 1, 0, 0, 0))}
    /\ QEnd(Y, 4) = {Ok(Instant(Y, 9, 30, 23, 59, 59))}

\* C3: under the default configuration, for every valid fiscal year Y,
\* FiscalYear(Y) runs from (Y-1)-10-01 00:00:00 to Y-09-30 23:59:59 and its
\* quarters are Oct-Dec (Y-1), Jan-Mar Y, Apr-Jun Y, Jul-Sep Y.
C3_FederalYear ==
    (self.cls = "FiscalYear" /\ DefaultConfig /\ ret.op = "FiscalYear.start")
        => FederalYear(self._fiscal_year)

\* the federal spans hold for every fiscal year above MINYEAR
C3_AboveMinYear ==
    (self.cls = "FiscalYear" /\ DefaultConfig /\ ret.op = "FiscalYear.start"
        /\ self._fiscal_year > MINYEAR)
        => FederalYear(self._fiscal_year)

(* ------------------------------------------------------------------ *)
(* C4                                                                   *)
(* ------------------------------------------------------------------ *)

\* C4: FiscalYear(y) with an integer y outside MINYEAR..MAXYEAR, and
\* FiscalQuarter(y, q) with an integer y outside that range or an integer q
\* outside 1..4, raise ValueError and yield no object.
C4_OutOfRangeIsValueError ==
    /\ (ret.op = "FiscalYear" /\ IsInt(ret.arg) /\ ~ValidYear(ret.arg.int))
           => (ret.exc = "ValueError" /\ self.cls = "NoneType")
    /\ (ret.op = "FiscalQuarter" /\ IsInt(ret.arg[1]) /\ IsInt(ret.arg[2])
            /\ (~ValidYear(ret.arg[1].int)
                \/ ret.arg[2].int \notin MIN_QUARTER..MAX_QUARTER))
           => (ret.exc = "ValueError" /\ self.cls = "NoneType")

\* the part of C4 about FiscalYear holds
C4_FiscalYearPart ==
    (ret.op = "FiscalYear" /\ IsInt(ret.arg) /\ ~ValidYear(ret.arg.int))
        => (ret.exc = "ValueError" /\ self.cls = "NoneType")

(* ------------------------------------------------------------------ *)
(* C5                                                                   *)
(* ------------------------------------------------------------------ *)

Digits == {"0", "1", "2", "3", "4", "5", "6", "7", "8", "9"}

DigitValue(c) ==
    CASE c = "0" -> 0 [] c = "1" -> 1 [] c = "2" -> 2 [] c = "3" -> 3
      [] c = "4" -> 4 [] c = "5" -> 5 [] c = "6" -> 6 [] c = "7" -> 7
      [] c = "8" -> 8 [] OTHER -> 9

\* a non-empty string of decimal digits
IsDigitString(s) == Len(s) > 0 /\ \A i \in 1..Len(s) : s[i] \in Digits

\* the integer a string of decimal digits denotes
RECURSIVE DecimalValue(_)
DecimalValue(s) ==
    IF Len(s) = 0 THEN 0
    ELSE 10 * DecimalValue(SubSeq(s, 1, Len(s) - 1)) + DigitValue(s[Len(s)])

\* the outcome of FiscalYear(value) when value normalizes to the integer n
AcceptedAs(n) ==
    IF ValidYear(n)
    THEN IsOk(ret) /\ self.cls = "FiscalYear" /\ self._fiscal_year = n
    ELSE ret.exc = "ValueError"

\* C5: FiscalYear accepts an integer as is, accepts a string of decimal digits
\* as the integer it denotes, and rejects every other input with TypeError.
C5_YearNormalization ==
    ret.op = "FiscalYear" =>
        IF IsInt(ret.arg) THEN AcceptedAs(ret.arg.int)
        ELSE IF ret.arg.cls = "str" /\ IsDigitString(ret.arg.str)
        THEN AcceptedAs(DecimalValue(ret.arg.str))
        ELSE ret.exc = "TypeError"

\* the part of C5 about inputs that are no strings holds
C5_NonStringPart ==
    (ret.op = "FiscalYear" /\ ret.arg.cls # "str") =>
        IF IsInt(ret.arg) THEN AcceptedAs(ret.arg.int) ELSE ret.exc = "TypeError"

(* ------------------------------------------------------------------ *)
(* C7                                                                   *)
(* ------------------------------------------------------------------ *)

\* C7: for every START_MONTH, valid fiscal year and quarter, the day of
\* FiscalQuarter.end is the Gregorian length of the quarter's last month in
\* the calendar year of the end instant (29 or 28 for February by the leap
\* rule applied to that calendar year).
C7_EndIsLastDayOfMonth ==
    (ValidQuarterObj(self) /\ ret.op = "FiscalQuarter.end") =>
        /\ IsOk(ret)
        /\ ret.val.month = EndMonthOf(self.quarter.int)
        /\ ret.val.day = GregorianDays(ret.val.year, ret.val.month)

\* whenever end returns, its day is the Gregorian length of its month
C7_WhenEndReturns ==
    (ValidQuarterObj(self) /\ ret.op = "FiscalQuarter.end" /\ IsOk(ret)) =>
        /\ ret.val.month = EndMonthOf(self.quarter.int)
        /\ ret.val.day = GregorianDays(ret.val.year, ret.val.month)

(* ------------------------------------------------------------------ *)
(* C9                                                                   *)
(* ------------------------------------------------------------------ *)

\* C9: under the default configuration, for every fiscal year in
\* MINYEAR..MAXYEAR and every quarter, FiscalYear.start, FiscalYear.end,
\* FiscalQuarter.start and FiscalQuarter.end return an instant whose year is
\* in MINYEAR..MAXYEAR and raise nothing.
C9_ConstructedIsUsable ==
    (/\ DefaultConfig
     /\ self.cls = "FiscalYear" \/ ValidQuarterObj(self)
     /\ ret.op \in {"FiscalYear.start", "FiscalYear.end",
                    "FiscalQuarter.start", "FiscalQuarter.end"})
        => (IsOk(ret) /\ ValidYear(ret.val.year))

\* above MINYEAR every start and end returns
C9_AboveMinYear ==
    (/\ DefaultConfig
     /\ \/ self.cls = "FiscalYear" /\ self._fiscal_year > MINYEAR
        \/ ValidQuarterObj(self) /\ self.fiscal_year.int > MINYEAR
     /\ ret.op \in {"FiscalYear.start", "FiscalYear.end",
                    "FiscalQuarter.start", "FiscalQuarter.end"})
        => (IsOk(ret) /\ ValidYear(ret.val.year))

(* ------------------------------------------------------------------ *)
(* C10                                                                  *)
(* ------------------------------------------------------------------ *)

\* d lies between the dates of the start and the end of quarter Q of fiscal
\* year Y, both inclusive
InQuarter(d, Y, Q) ==
    /\ Returned(QStart(Y, Q))
    /\ Returned(QEnd(Y, Q))
    /\ DateLE(DateOf(ValueOf(QStart(Y, Q))), d)
    /\ DateLE(d, DateOf(ValueOf(QEnd(Y, Q))))

\* C10: for START_MONTH in 1..12 and START_DAY in 1..28, a date d lies between
\* the dates of FiscalQuarter(Y, Q).start and .end exactly when
\* FiscalDate(d).fiscal_year = Y and FiscalDate(d).quarter = Q; quarter is in
\* 1..4.
C10_ForwardReverseAgree ==
    (self.cls = "FiscalDate" /\ ret.op = "FiscalDate.quarter") =>
        /\ ret.val \in 1..4
        /\ \A Y \in {y \in (self.year - 1)..(self.year + 1) : ValidYear(y)},
              Q \in 1..4 :
              InQuarter(self, Y, Q)
                  <=> (FiscalDate_fiscal_year(self) = Y /\ ret.val = Q)

\* with START_DAY = 1 the two mappings agree on every date, for the fiscal
\* years above MINYEAR
C10_FirstOfMonth ==
    (self.cls = "FiscalDate" /\ ret.op = "FiscalDate.quarter" /\ START_DAY = 1) =>
        /\ ret.val \in 1..4
        /\ \A Y \in {y \in (self.year - 1)..(self.year + 1) :
                         ValidYear(y) /\ y > MINYEAR},
              Q \in 1..4 :
              InQuarter(self, Y, Q)
                  <=> (FiscalDate_fiscal_year(self) = Y /\ ret.val = Q)

\* the statement of C10 for the fiscal years above MINYEAR alone; START_DAY = 2
\* refutes it (the first of the start month is in no quarter's span)
C10_AboveMinYear ==
    (self.cls = "FiscalDate" /\ ret.op = "FiscalDate.quarter"
        /\ FiscalDate_fiscal_year(self) > MINYEAR) =>
        /\ ret.val \in 1..4
        /\ \A Y \in {y \in (self.year - 1)..(self.year + 1) :
                         ValidYear(y) /\ y > MINYEAR},
              Q \in 1..4 :
              InQuarter(self, Y, Q)
                  <=> (FiscalDate_fiscal_year(self) = Y /\ ret.val = Q)

=============================================================================
